---- MODULE Spec2Model ----
(***************************************************************************)
(* Sokoban-Solver: the two SAT encodings of the repository.                *)
(*   Question2/q2.py  SokobanEncoder, decode, solve_sokoban                *)
(*   Question1/q1.py  solve_sudoku                                         *)
(* grid is the caller's grid object, given its value when the call starts. *)
(* A clause is a set of non-zero integers (its literals), a clause list a  *)
(* set of clauses; a model is the list of signed literals PySAT returns,   *)
(* model[v] = v or -v for v in 1..nof_vars.  The SAT solver is external:   *)
(* it answers UNSAT when no assignment satisfies the clauses and otherwise *)
(* hands back some satisfying assignment, any of them.                     *)
(***************************************************************************)
EXTENDS Integers, Sequences, FiniteSets, TLC

VARIABLES grid, T, pc, enc, cnf, model, result, solution, given

vars == <<grid, T, pc, enc, cnf, model, result, solution, given>>

(* ------------------------------ bounds -------------------------------- *)

\* largest horizon handed to solve_sokoban
MaxT == 3
\* most 'B' cells in an input grid
MaxBoxes == 2
\* most '#' cells in an input grid
MaxWalls == 1
\* most 'G' cells in an input grid
MaxGoals == 1
\* rows x columns of the input grids that are enumerated cell by cell
Shapes == {<<1, 3>>, <<2, 2>>}
\* larger levels, taken as they are: two boxes that both have to be pushed,
\* a corridor with a wall behind the goal
Levels == {<<<<"G", "B", "P", "B", "G">>>>,
           <<<<"P", ".", "B", "G", "#">>>>}

\* the leading cells of a solved grid (row by row) that a puzzle may overwrite
MaxFree == 1
\* side lengths of the input grids of solve_sudoku
Sides == {1, 2, 3, 4}

Markers == {"P", "B", "G", "#", "."}

None == "None"

\* Python values a call can return: an int, a list, or nothing yet
PyInt(i) == [tag |-> "int", int |-> i, list |-> <<>>]
PyList(l) == [tag |-> "list", int |-> 0, list |-> l]
PyNone == [tag |-> "None", int |-> 0, list |-> <<>>]

\* the value solve_sokoban returns for an unsatisfiable instance
Infeasible == PyInt(-1)

(* --------------------------- SAT oracle ------------------------------- *)

Abs(l) == IF l < 0 THEN -l ELSE l

\* tr is the set of variables assigned true; every other variable is false
LitTrue(l, tr) == IF l > 0 THEN l \in tr ELSE (-l) \notin tr

ClauseTrue(c, tr) == \E l \in c : LitTrue(l, tr)

Satisfies(tr, clauses) == \A c \in clauses : ClauseTrue(c, tr)

MaxOf(S) == CHOOSE m \in S : \A k \in S : k <= m

\* the largest variable of a clause list (PySAT's nof_vars)
NofVars(clauses) == MaxOf({Abs(l) : l \in UNION clauses})

RECURSIVE Search(_, _, _, _, _)
\* all extensions of the partial assignment tr (variables order[1..i-1]
\* decided) over the variables order[i..hi] that falsify no clause; late[i]
\* holds the clauses whose last variable in the order is order[i]
Search(late, order, i, hi, tr) ==
    IF i > hi THEN {tr}
    ELSE LET v == order[i]
             withV == tr \cup {v}
         IN  (IF \A c \in late[i] : ClauseTrue(c, withV)
                 THEN Search(late, order, i + 1, hi, withV) ELSE {})
             \cup
             (IF \A c \in late[i] : ClauseTrue(c, tr)
                 THEN Search(late, order, i + 1, hi, tr) ELSE {})

RECURSIVE SearchBlocks(_, _, _, _)
\* the search, a block of twelve variables at a time: partial holds every
\* assignment of order[1..i-1] that falsifies no clause
SearchBlocks(late, order, i, partial) ==
    IF i > Len(order) \/ partial = {} THEN partial
    ELSE LET hi == IF i + 11 > Len(order) THEN Len(order) ELSE i + 11
         IN  SearchBlocks(late, order, hi + 1,
                          UNION {Search(late, order, i, hi, tr) : tr \in partial})

\* every satisfying assignment of the clause list, as sets of true variables;
\* order is the decision order of the search, a permutation of 1..nof_vars
Models(clauses, order) ==
    LET n == Len(order)
        pos == [v \in 1..n |-> CHOOSE i \in 1..n : order[i] = v]
        tagged == {<<MaxOf({pos[Abs(l)] : l \in c}), c>> : c \in clauses}
        late == [i \in 1..n |-> {p[2] : p \in {q \in tagged : q[1] = i}}]
    IN  IF {} \in clauses THEN {} ELSE SearchBlocks(late, order, 1, {{}})

\* solver.get_model(): one signed literal per variable
AsModel(tr, n) == [v \in 1..n |-> IF v \in tr THEN v ELSE -v]

(* ------------------------- SokobanEncoder ----------------------------- *)

\* row-major list of the cells of an N x M grid, 0-based as in the code
CellSeq(N, M) == [i \in 1..(N * M) |-> <<(i - 1) \div M, (i - 1) % M>>]

Cells(N, M) == (0..(N - 1)) \X (0..(M - 1))

At(g, c) == g[c[1] + 1][c[2] + 1]

InSeq(x, s) == \E i \in 1..Len(s) : s[i] = x

\* _parse_grid: boxes, goals and walls in scan order, the last 'P' as start
ParseGrid(g) ==
    LET N == Len(g)
        M == Len(g[1])
        cs == CellSeq(N, M)
        ps == SelectSeq(cs, LAMBDA c : At(g, c) = "P")
    IN  [N |-> N, M |-> M,
         goals |-> SelectSeq(cs, LAMBDA c : At(g, c) = "G"),
         boxes |-> SelectSeq(cs, LAMBDA c : At(g, c) = "B"),
         walls |-> SelectSeq(cs, LAMBDA c : At(g, c) = "#"),
         player_start |-> IF Len(ps) = 0 THEN None ELSE ps[Len(ps)]]

\* __init__: self.T = T + 1 snapshots, num_boxes = len(self.boxes)
NewEncoder(g, horizon) ==
    LET p == ParseGrid(g)
    IN  [N |-> p.N, M |-> p.M, T |-> horizon + 1,
         goals |-> p.goals, boxes |-> p.boxes, walls |-> p.walls,
         player_start |-> p.player_start, num_boxes |-> Len(p.boxes)]

var_goal(e, x, y) == x * e.M + y + 1

var_player(e, x, y, t) == (t + 1) * e.M * e.N + x * e.M + y + 1

\* an action range of eight ids per snapshot
var_move_Stride8(e, num, t) == (e.T + 1) * e.M * e.N + 8 * t + num

var_move(e, num, t) == (e.T + 1) * e.M * e.N + 9 * t + num

var_box(e, b, x, y, t) ==
    (1 + e.T) * e.N * e.M + 9 * e.T + e.num_boxes * t * e.N * e.M
        + (b - 1) * e.N * e.M + x * e.M + y + 1

\* DIRS: the displacement of each direction symbol
DIRS == [U |-> <<-1, 0>>, D |-> <<1, 0>>, L |-> <<0, -1>>, R |-> <<0, 1>>]

\* the cell one step from (x, y); move 0..3 is U, R, D, L
StepCell(move, x, y) ==
    IF move = 0 THEN <<x - 1, y>>
    ELSE IF move = 1 THEN <<x, y + 1>>
    ELSE IF move = 2 THEN <<x + 1, y>>
    ELSE <<x, y - 1>>

OffGrid(e, c) == c[1] < 0 \/ c[2] < 0 \/ c[1] >= e.N \/ c[2] >= e.M

(* ------------------------------ encode -------------------------------- *)

Times(e) == 0..(e.T - 1)
Steps(e) == 1..(e.T - 1)
BoxIds(e) == 1..e.num_boxes

\* 1. Initial conditions: start cells, the goal facts
InitialConditions(e) ==
    {{var_player(e, e.player_start[1], e.player_start[2], 0)}}
    \cup {{var_box(e, b, e.boxes[b][1], e.boxes[b][2], 0)} : b \in BoxIds(e)}
    \cup {{IF InSeq(c, e.goals) THEN var_goal(e, c[1], c[2])
                                ELSE -var_goal(e, c[1], c[2])} : c \in Cells(e.N, e.M)}

\* wall clauses for the boxes alone
WallConditions_BoxesOnly(e) ==
    UNION {{{-var_box(e, b, e.walls[w][1], e.walls[w][2], t)} : b \in BoxIds(e)}
           : <<w, t>> \in (1..Len(e.walls)) \X Times(e)}

\* walls hold neither the player nor a box, at any time
WallConditions(e) ==
    UNION {{{-var_player(e, e.walls[w][1], e.walls[w][2], t)}}
           \cup {{-var_box(e, b, e.walls[w][1], e.walls[w][2], t)} : b \in BoxIds(e)}
           : <<w, t>> \in (1..Len(e.walls)) \X Times(e)}

\* Stay condition at t=0
StayAtZero(e) == {{var_move(e, 9, 0)}}

\* player movement with the two horizontal directions taken the wrong way round
PlayerMovement_Mirrored(e) ==
    UNION {
      LET x == q[1][1]
          y == q[1][2]
          move == q[2]
          t == q[3]
          new == StepCell(IF move = 1 THEN 3 ELSE IF move = 3 THEN 1 ELSE move, x, y)
      IN  {{-var_move(e, move + 1, t), -var_box(e, b, x, y, t - 1), var_box(e, b, x, y, t)}
             : b \in BoxIds(e)}
          \cup
          (IF OffGrid(e, new)
             THEN {{-var_move(e, move + 1, t), -var_player(e, x, y, t - 1)}}
             ELSE {{-var_move(e, move + 1, t), -var_player(e, x, y, t - 1),
                    var_player(e, new[1], new[2], t)}})
      : q \in Cells(e.N, e.M) \X (0..3) \X Steps(e)}

\* 2. Player movement: a plain move keeps every box and steps the player
PlayerMovement(e) ==
    UNION {
      LET x == q[1][1]
          y == q[1][2]
          move == q[2]
          t == q[3]
          new == StepCell(move, x, y)
      IN  {{-var_move(e, move + 1, t), -var_box(e, b, x, y, t - 1), var_box(e, b, x, y, t)}
             : b \in BoxIds(e)}
          \cup
          (IF OffGrid(e, new)
             THEN {{-var_move(e, move + 1, t), -var_player(e, x, y, t - 1)}}
             ELSE {{-var_move(e, move + 1, t), -var_player(e, x, y, t - 1),
                    var_player(e, new[1], new[2], t)}})
      : q \in Cells(e.N, e.M) \X (0..3) \X Steps(e)}

\* push rules whose frame clauses cover the pushed-from cell as well
PushRules_FrameAll(e) ==
    UNION {
      LET x == q[1][1]
          y == q[1][2]
          t == q[2]
          move == q[3]
          new == StepCell(move, x, y)
          box == StepCell(move, new[1], new[2])
          mv == -var_move(e, move + 5, t)
          pl == -var_player(e, x, y, t - 1)
      IN  IF OffGrid(e, new) \/ OffGrid(e, box)
            THEN {{mv, pl}}
            ELSE {{mv, pl} \cup {var_box(e, b, new[1], new[2], t - 1) : b \in BoxIds(e)}}
                 \cup {{mv, pl, -var_box(e, b, new[1], new[2], t - 1),
                        var_player(e, new[1], new[2], t)} : b \in BoxIds(e)}
                 \cup {{mv, pl, -var_box(e, b, new[1], new[2], t - 1),
                        var_box(e, b, box[1], box[2], t)} : b \in BoxIds(e)}
                 \cup {{mv, pl, -var_box(e, r[1], r[2][1], r[2][2], t - 1),
                        var_box(e, r[1], r[2][1], r[2][2], t)}
                         : r \in BoxIds(e) \X Cells(e.N, e.M)}
      : q \in Cells(e.N, e.M) \X Steps(e) \X (0..3)}

\* push rules without the clause that asks for a box in the cell ahead
PushRules_NoBoxAhead(e) ==
    UNION {
      LET x == q[1][1]
          y == q[1][2]
          t == q[2]
          move == q[3]
          new == StepCell(move, x, y)
          box == StepCell(move, new[1], new[2])
          mv == -var_move(e, move + 5, t)
          pl == -var_player(e, x, y, t - 1)
      IN  IF OffGrid(e, new) \/ OffGrid(e, box)
            THEN {{mv, pl}}
            ELSE {{mv, pl, -var_box(e, b, new[1], new[2], t - 1),
                   var_player(e, new[1], new[2], t)} : b \in BoxIds(e)}
                 \cup {{mv, pl, -var_box(e, b, new[1], new[2], t - 1),
                        var_box(e, b, box[1], box[2], t)} : b \in BoxIds(e)}
                 \cup {{mv, pl, -var_box(e, r[1], r[2][1], r[2][2], t - 1),
                        var_box(e, r[1], r[2][1], r[2][2], t)}
                         : r \in BoxIds(e) \X (Cells(e.N, e.M) \ {new})}
      : q \in Cells(e.N, e.M) \X Steps(e) \X (0..3)}

\* 3. Box movement (push rules)
PushRules(e) ==
    UNION {
      LET x == q[1][1]
          y == q[1][2]
          t == q[2]
          move == q[3]
          new == StepCell(move, x, y)
          box == StepCell(move, new[1], new[2])
          mv == -var_move(e, move + 5, t)
          pl == -var_player(e, x, y, t - 1)
      IN  IF OffGrid(e, new) \/ OffGrid(e, box)
            THEN {{mv, pl}}
            ELSE {{mv, pl} \cup {var_box(e, b, new[1], new[2], t - 1) : b \in BoxIds(e)}}
                 \cup {{mv, pl, -var_box(e, b, new[1], new[2], t - 1),
                        var_player(e, new[1], new[2], t)} : b \in BoxIds(e)}
                 \cup {{mv, pl, -var_box(e, b, new[1], new[2], t - 1),
                        var_box(e, b, box[1], box[2], t)} : b \in BoxIds(e)}
                 \cup {{mv, pl, -var_box(e, r[1], r[2][1], r[2][2], t - 1),
                        var_box(e, r[1], r[2][1], r[2][2], t)}
                         : r \in BoxIds(e) \X (Cells(e.N, e.M) \ {new})}
      : q \in Cells(e.N, e.M) \X Steps(e) \X (0..3)}

\* non-overlap clauses between boxes alone
NonOverlap_BoxPairsOnly(e) ==
    {{-var_box(e, q[2], q[1][1], q[1][2], q[4]), -var_box(e, q[3], q[1][1], q[1][2], q[4])}
       : q \in {q \in Cells(e.N, e.M) \X BoxIds(e) \X BoxIds(e) \X Times(e) : q[2] < q[3]}}

\* 4. Non-overlap constraints
NonOverlap(e) ==
    UNION {
      LET x == q[1][1]
          y == q[1][2]
          b == q[2]
          t == q[3]
      IN  {{-var_player(e, x, y, t), -var_box(e, b, x, y, t)}}
          \cup {{-var_box(e, b, x, y, t), -var_box(e, bd, x, y, t)}
                  : bd \in (b + 1)..e.num_boxes}
      : q \in Cells(e.N, e.M) \X BoxIds(e) \X Times(e)}

\* goal conditions laid on every snapshot instead of the last one
GoalConditions_EverySnapshot(e) ==
    {{-var_box(e, q[2], q[1][1], q[1][2], q[3]), var_goal(e, q[1][1], q[1][2])}
       : q \in Cells(e.N, e.M) \X BoxIds(e) \X Times(e)}

\* 5. Goal conditions: a box at the last snapshot is on a goal cell
GoalConditions(e) ==
    {{-var_box(e, q[2], q[1][1], q[1][2], e.T - 1), var_goal(e, q[1][1], q[1][2])}
       : q \in Cells(e.N, e.M) \X BoxIds(e)}

\* a totality clause and the pairwise exclusions of a set of variables
ExactlyOne(vs) == {vs} \cup {{-a, -b} : <<a, b>> \in {p \in vs \X vs : p[1] < p[2]}}

\* 6. Exactly one move at a time
ExactlyOneMove(e) == UNION {ExactlyOne({var_move(e, i, t) : i \in 1..9}) : t \in Times(e)}

\* uniqueness clauses for the player alone
UniquenessPerTime_PlayerOnly(e) ==
    UNION {ExactlyOne({var_player(e, c[1], c[2], t) : c \in Cells(e.N, e.M)})
           : t \in Times(e)}

\* 7. Uniqueness per time conditions
UniquenessPerTime(e) ==
    UNION {ExactlyOne({var_player(e, c[1], c[2], t) : c \in Cells(e.N, e.M)})
           \cup UNION {ExactlyOne({var_box(e, b, c[1], c[2], t) : c \in Cells(e.N, e.M)})
                         : b \in BoxIds(e)}
           : t \in Times(e)}

\* stay clauses for the player alone
StayConditions_PlayerOnly(e) ==
    {{-var_move(e, 9, q[1]), -var_player(e, q[2][1], q[2][2], q[1] - 1),
      var_player(e, q[2][1], q[2][2], q[1])}
       : q \in Steps(e) \X Cells(e.N, e.M)}

\* 8. Stay conditions
StayConditions(e) ==
    UNION {{{-var_move(e, 9, q[1]), -var_box(e, b, q[2][1], q[2][2], q[1] - 1),
             var_box(e, b, q[2][1], q[2][2], q[1])} : b \in BoxIds(e)}
           \cup {{-var_move(e, 9, q[1]), -var_player(e, q[2][1], q[2][2], q[1] - 1),
                  var_player(e, q[2][1], q[2][2], q[1])}}
           : q \in Steps(e) \X Cells(e.N, e.M)}

\* SokobanEncoder.encode
encode(e) ==
    InitialConditions(e) \cup WallConditions(e) \cup StayAtZero(e)
    \cup PlayerMovement(e) \cup PushRules(e) \cup NonOverlap(e)
    \cup GoalConditions(e) \cup ExactlyOneMove(e) \cup UniquenessPerTime(e)
    \cup StayConditions(e)

\* the decision order of the solver on a planning instance: the goal facts,
\* then snapshot by snapshot the action, the player cell and the box cells
SearchOrder(e) ==
    LET nm == e.N * e.M
        perT == 9 + nm + e.num_boxes * nm
        cs == CellSeq(e.N, e.M)
        slot(k) ==  \* k in 1..perT, the k-th variable of snapshot t
            [t \in Times(e) |->
               IF k <= 9 THEN var_move(e, k, t)
               ELSE IF k <= 9 + nm THEN var_player(e, cs[k - 9][1], cs[k - 9][2], t)
               ELSE LET j == k - 9 - nm - 1
                    IN  var_box(e, (j \div nm) + 1, cs[(j % nm) + 1][1], cs[(j % nm) + 1][2], t)]
    IN  [i \in 1..(nm + e.T * perT) |->
           IF i <= nm THEN i
           ELSE slot(((i - nm - 1) % perT) + 1)[(i - nm - 1) \div perT]]

(* ------------------------------ decode -------------------------------- *)

\* a decoder that takes the two horizontal push codes the wrong way round
MoveSymbol_PushMirrored(code) ==
    CASE code = 0 -> "U" [] code = 1 -> "R" [] code = 2 -> "D" [] code = 3 -> "L"
      [] code = 4 -> "U" [] code = 5 -> "L" [] code = 6 -> "D" [] code = 7 -> "R"

\* the match statement of decode: codes 0..3 are the moves, 4..7 the pushes
MoveSymbol(code) ==
    CASE code = 0 -> "U" [] code = 1 -> "R" [] code = 2 -> "D" [] code = 3 -> "L"
      [] code = 4 -> "U" [] code = 5 -> "R" [] code = 6 -> "D" [] code = 7 -> "L"

RECURSIVE DecodeFrom(_, _, _, _)
\* the loop of decode over index = lo .. hi-1 of the 0-based model list
DecodeFrom(m, base, index, hi) ==
    IF index >= hi THEN <<>>
    ELSE LET code == (index - base) % 9
         IN  (IF m[index + 1] > 0 /\ code <= 7 THEN <<MoveSymbol(code)>> ELSE <<>>)
             \o DecodeFrom(m, base, index + 1, hi)

decode(m, e) ==
    DecodeFrom(m, (e.T + 1) * e.N * e.M, (e.T + 1) * e.N * e.M,
               (e.T + 1) * e.N * e.M + 9 * e.T)

(* --------------------------- solve_sokoban ---------------------------- *)

CountOf(g, mark) ==
    Cardinality({c \in Cells(Len(g), Len(g[1])) : At(g, c) = mark})

Grids ==
    {g \in UNION {[1..s[1] -> [1..s[2] -> Markers]] : s \in Shapes} :
        /\ CountOf(g, "P") <= 1
        /\ CountOf(g, "B") <= MaxBoxes
        /\ CountOf(g, "#") <= MaxWalls
        /\ CountOf(g, "G") <= MaxGoals}
    \cup Levels

Init ==
    /\ grid \in Grids
    /\ T \in 0..MaxT
    /\ pc = "start"
    /\ enc = None
    /\ cnf = {}
    /\ model = <<>>
    /\ result = PyNone
    /\ solution = None
    /\ given = grid

\* encoder = SokobanEncoder(grid, T)
Construct ==
    /\ pc = "start"
    /\ enc' = NewEncoder(grid, T)
    /\ pc' = "constructed"
    /\ UNCHANGED <<grid, T, cnf, model, result, solution, given>>

\* cnf = encoder.encode(); player_start[0] of None raises TypeError
Encode ==
    /\ pc = "constructed"
    /\ IF enc.player_start = None
         THEN pc' = "error" /\ cnf' = cnf
         ELSE pc' = "encoded" /\ cnf' = encode(enc)
    /\ UNCHANGED <<grid, T, enc, model, result, solution, given>>

\* solver.solve(): false and return -1, or true and model = solver.get_model()
Solve ==
    /\ pc = "encoded"
    /\ LET ms == Models(cnf, SearchOrder(enc))
       IN  IF ms = {}
             THEN /\ result' = Infeasible
                  /\ pc' = "done"
                  /\ model' = model
             ELSE /\ \E tr \in ms : model' = AsModel(tr, NofVars(cnf))
                  /\ pc' = "solved"
                  /\ result' = result
    /\ UNCHANGED <<grid, T, enc, cnf, solution, given>>

\* a solve_sokoban that also answers -1 for a plan without a symbol
Decode_EmptyAsInfeasible ==
    /\ pc = "solved"
    /\ result' = IF model = <<>> \/ decode(model, enc) = <<>>
                   THEN Infeasible ELSE PyList(decode(model, enc))
    /\ pc' = "done"
    /\ UNCHANGED <<grid, T, enc, cnf, model, solution, given>>

\* if not model: return -1; return decode(model, encoder)
Decode ==
    /\ pc = "solved"
    /\ result' = IF model = <<>> THEN Infeasible ELSE PyList(decode(model, enc))
    /\ pc' = "done"
    /\ UNCHANGED <<grid, T, enc, cnf, model, solution, given>>

Next == Construct \/ Encode \/ Solve \/ Decode

Spec == Init /\ [][Next]_vars


(* ----------------------- solve_sudoku (q1.py) ------------------------- *)

\* the square root rounded up instead of down
sub_n_RoundedUp(n) == CHOOSE k \in 0..n : k * k >= n /\ (k = 0 \/ (k - 1) * (k - 1) < n)

\* int(n**0.5)
sub_n(n) == CHOOSE k \in 0..n : k * k <= n /\ (k + 1) * (k + 1) > n

prop(n, row, col, num) == (row * n + col) * n + num

Idx(n) == 0..(n - 1)

\* Encoding each cell conditions: at least one number, at most one number
CellConditions(n) ==
    UNION {{{prop(n, q[1], q[2], num) : num \in 1..n}}
           \cup {{-prop(n, q[1], q[2], ij[1]), -prop(n, q[1], q[2], ij[2])}
                   : ij \in {ij \in (1..n) \X (1..n) : ij[1] < ij[2]}}
           : q \in Idx(n) \X Idx(n)}

\* the row loop with the comprehension of the column loop in it
RowConditions_AsColumns(n) ==
    {{prop(n, r, q[1], q[2]) : r \in Idx(n)} : q \in Idx(n) \X (1..n)}

\* Row conditions: each number appears in each row
RowConditions(n) ==
    {{prop(n, q[1], c, q[2]) : c \in Idx(n)} : q \in Idx(n) \X (1..n)}

\* the column loop with the comprehension of the row loop in it
ColumnConditions_AsRows(n) ==
    {{prop(n, q[1], c, q[2]) : c \in Idx(n)} : q \in Idx(n) \X (1..n)}

\* Column conditions: each number appears in each column
ColumnConditions(n) ==
    {{prop(n, r, q[1], q[2]) : r \in Idx(n)} : q \in Idx(n) \X (1..n)}

\* range(0, n, sub_n)
BlockStarts(n) == {b \in Idx(n) : b % sub_n(n) = 0}

\* Subgrid conditions: each number appears in each sub_n x sub_n block
SubgridConditions(n) ==
    {{prop(n, rc[1], rc[2], q[3])
        : rc \in (q[1]..(q[1] + sub_n(n) - 1)) \X (q[2]..(q[2] + sub_n(n) - 1))}
       : q \in BlockStarts(n) \X BlockStarts(n) \X (1..n)}

\* Initial conditions: a unit clause for every pre-filled cell
GivenConditions(g) ==
    {{prop(Len(g), q[1], q[2], g[q[1] + 1][q[2] + 1])}
       : q \in {q \in Idx(Len(g)) \X Idx(Len(g)) : g[q[1] + 1][q[2] + 1] # 0}}

\* the clauses solve_sudoku hands to the solver
SudokuClauses(g) ==
    CellConditions(Len(g)) \cup RowConditions(Len(g)) \cup ColumnConditions(Len(g))
    \cup SubgridConditions(Len(g)) \cup GivenConditions(g)

\* the decoding loop for one cell: the first true number, else the cell as it is
DecodeCell(m, g, r, c) ==
    LET n == Len(g)
        hits == {num \in 1..n : m[prop(n, r, c, num)] > 0}
    IN  IF hits = {} THEN g[r + 1][c + 1]
        ELSE CHOOSE num \in hits : \A k \in hits : num <= k

\* a decoding loop that writes solution[c][r]
DecodeGrid_Transposed(m, g) ==
    [r \in 1..Len(g) |-> [c \in 1..Len(g) |-> DecodeCell(m, g, c - 1, r - 1)]]

\* the decoding loop: solution[r][c] = num, written into the grid object
DecodeGrid(m, g) ==
    [r \in 1..Len(g) |-> [c \in 1..Len(g) |-> DecodeCell(m, g, r - 1, c - 1)]]

\* the decision order of the solver on a static puzzle: by variable number
NaturalOrder(clauses) == [i \in 1..NofVars(clauses) |-> i]

Perms(n) == {p \in [1..n -> 1..n] : \A i, j \in 1..n : i # j => p[i] # p[j]}

RECURSIVE LatinRows(_, _)
\* the k x n arrays whose rows are permutations and whose columns repeat nothing
LatinRows(n, k) ==
    IF k = 0 THEN {<<>>}
    ELSE {Append(q[1], q[2]) : q \in
            {q \in LatinRows(n, k - 1) \X Perms(n) :
                \A i \in 1..(k - 1) : \A c \in 1..n : q[1][i][c] # q[2][c]}}

IsSquare(n) == sub_n(n) * sub_n(n) = n

\* every block of a filled grid holds each number
BlocksComplete(g) ==
    LET n == Len(g)
    IN  \A q \in BlockStarts(n) \X BlockStarts(n) :
           {g[rc[1] + 1][rc[2] + 1]
              : rc \in (q[1]..(q[1] + sub_n(n) - 1)) \X (q[2]..(q[2] + sub_n(n) - 1))} = 1..n

\* the valid solutions of side n: Latin squares, with complete blocks when n is
\* a perfect square
Solved(n) == {g \in LatinRows(n, n) : IsSquare(n) => BlocksComplete(g)}

\* g with its first Len(v) cells, row by row, replaced by the values v
Overwrite(g, v) ==
    [r \in 1..Len(g) |-> [c \in 1..Len(g) |->
        IF (r - 1) * Len(g) + c <= Len(v) THEN v[(r - 1) * Len(g) + c] ELSE g[r][c]]]

\* g with the rows after the first keep rows blanked
KeepRows(g, keep) ==
    [r \in 1..Len(g) |-> [c \in 1..Len(g) |-> IF r <= keep THEN g[r][c] ELSE 0]]

\* how many leading rows of a solved grid a puzzle keeps: any number on the
\* small sides, one row, half the rows or all rows from side four on
KeptRows(n) == IF n < 4 THEN 0..n ELSE {1, n \div 2, n}

Smaller(a, b) == IF a < b THEN a ELSE b

\* the input grids: solved grids, some of their last rows blanked, their
\* leading cells overwritten by any values 0..n
Puzzles ==
    UNION {{Overwrite(KeepRows(q[1], q[2]), q[3])
              : q \in Solved(n) \X KeptRows(n)
                      \X UNION {[1..k -> 0..n] : k \in 0..Smaller(MaxFree, n * n)}}
           : n \in Sides}

SudokuInit ==
    /\ grid \in Puzzles
    /\ given = grid
    /\ pc = "start"
    /\ cnf = {}
    /\ model = <<>>
    /\ solution = None
    /\ T = 0
    /\ enc = None
    /\ result = PyNone

\* the clause generation of solve_sudoku
SudokuEncode ==
    /\ pc = "start"
    /\ cnf' = SudokuClauses(grid)
    /\ pc' = "encoded"
    /\ UNCHANGED <<grid, T, enc, model, result, solution, given>>

\* solution = grid; solver.solve(): false and return solution, or true and
\* model = solver.get_model()
SudokuSolve ==
    /\ pc = "encoded"
    /\ solution' = "grid"
    /\ LET ms == Models(cnf, NaturalOrder(cnf))
       IN  IF ms = {}
             THEN pc' = "done" /\ model' = model
             ELSE /\ \E tr \in ms : model' = AsModel(tr, NofVars(cnf))
                  /\ pc' = "solved"
    /\ UNCHANGED <<grid, T, enc, cnf, result, given>>

\* a decoding loop whose solution is a copy: the caller's grid is not written
SudokuDecode_IntoCopy ==
    /\ pc = "solved"
    /\ pc' = "done"
    /\ UNCHANGED <<grid, T, enc, cnf, model, result, solution, given>>

\* the decoding loop writes through solution into the caller's grid; return
SudokuDecode ==
    /\ pc = "solved"
    /\ grid' = DecodeGrid(model, grid)
    /\ pc' = "done"
    /\ UNCHANGED <<T, enc, cnf, model, result, solution, given>>

SudokuNext == SudokuEncode \/ SudokuSolve \/ SudokuDecode

SpecSudoku == SudokuInit /\ [][SudokuNext]_vars

\* the grid solve_sudoku returns: the object solution refers to
Returned == grid

(* ------------- the rules of the game, as the claims state them -------- *)

\* a snapshot is [p |-> the player's cell, b |-> the list of the boxes' cells]
Illegal == [p |-> <<-1, -1>>, b |-> <<>>]

InGrid(g, c) == c \in Cells(Len(g), Len(g[1]))

BoxAt(s, c) == \E k \in 1..Len(s.b) : s.b[k] = c

\* a plain move in direction d (0..3 = U, R, D, L): the target is a free cell
RuleMove(g, s, d) ==
    LET c == StepCell(d, s.p[1], s.p[2])
    IN  IF InGrid(g, c) /\ At(g, c) # "#" /\ ~BoxAt(s, c)
          THEN [p |-> c, b |-> s.b]
          ELSE Illegal

\* a push in direction d: a box is ahead and the cell behind it is free
RulePush(g, s, d) ==
    LET c == StepCell(d, s.p[1], s.p[2])
        c2 == StepCell(d, c[1], c[2])
    IN  IF /\ InGrid(g, c) /\ InGrid(g, c2) /\ BoxAt(s, c)
           /\ At(g, c2) # "#" /\ ~BoxAt(s, c2)
          THEN [p |-> c, b |-> [k \in 1..Len(s.b) |-> IF s.b[k] = c THEN c2 ELSE s.b[k]]]
          ELSE Illegal

\* action codes: 1..4 move U R D L, 5..8 push U R D L, 9 stay
RuleAct(g, s, a) ==
    IF a = 9 THEN s
    ELSE IF a <= 4 THEN RuleMove(g, s, a - 1)
    ELSE RulePush(g, s, a - 5)

\* the usual rule for a direction symbol: a step towards an adjacent box pushes it
RuleDir(g, s, d) ==
    IF BoxAt(s, StepCell(d, s.p[1], s.p[2])) THEN RulePush(g, s, d) ELSE RuleMove(g, s, d)

DirOf(sym) == CASE sym = "U" -> 0 [] sym = "R" -> 1 [] sym = "D" -> 2 [] sym = "L" -> 3

SymOf(d) == <<"U", "R", "D", "L">>[d + 1]

\* nobody in a wall or off the grid, no two in one cell
SnapLegal(g, s) ==
    /\ InGrid(g, s.p) /\ At(g, s.p) # "#" /\ ~BoxAt(s, s.p)
    /\ \A k \in 1..Len(s.b) : InGrid(g, s.b[k]) /\ At(g, s.b[k]) # "#"
    /\ \A j, k \in 1..Len(s.b) : j # k => s.b[j] # s.b[k]

AllOnGoal(g, s) == \A k \in 1..Len(s.b) : At(g, s.b[k]) = "G"

RECURSIVE Replay(_, _, _, _)
\* the snapshots after each of the symbols syms[i..]
Replay(g, s, syms, i) ==
    IF i > Len(syms) THEN <<>>
    ELSE LET s2 == RuleDir(g, s, DirOf(syms[i]))
         IN  IF s2 = Illegal THEN <<Illegal>> ELSE <<s2>> \o Replay(g, s2, syms, i + 1)

RECURSIVE Runs(_, _, _)
\* every sequence of at most k legal moves and pushes from s, as the list of
\* [a |-> action code, s |-> snapshot after it]
Runs(g, s, k) ==
    IF k = 0 THEN {<<>>}
    ELSE {<<>>} \cup
         UNION {{<<[a |-> a, s |-> RuleAct(g, s, a)]>> \o r : r \in Runs(g, RuleAct(g, s, a), k - 1)}
                  : a \in {a \in 1..8 : RuleAct(g, s, a) # Illegal}}

LastSnap(s0, r) == IF Len(r) = 0 THEN s0 ELSE r[Len(r)].s

\* the legal runs of at most horizon steps that end with every box on a goal
GoalRuns(g, horizon) ==
    LET s0 == [p |-> ParseGrid(g).player_start, b |-> ParseGrid(g).boxes]
    IN  {r \in Runs(g, s0, horizon) : AllOnGoal(g, LastSnap(s0, r))}

\* the variables a run makes true, padded with stay up to the last snapshot
AssignmentOf(e, g, r) ==
    LET s0 == [p |-> e.player_start, b |-> e.boxes]
        snap(t) == IF t = 0 THEN s0 ELSE IF t <= Len(r) THEN r[t].s ELSE LastSnap(s0, r)
        act(t) == IF t = 0 \/ t > Len(r) THEN 9 ELSE r[t].a
    IN  {var_goal(e, c[1], c[2]) : c \in {c \in Cells(e.N, e.M) : At(g, c) = "G"}}
        \cup {var_move(e, act(t), t) : t \in Times(e)}
        \cup {var_player(e, snap(t).p[1], snap(t).p[2], t) : t \in Times(e)}
        \cup {var_box(e, q[2], snap(q[1]).b[q[2]][1], snap(q[1]).b[q[2]][2], q[1])
                : q \in Times(e) \X BoxIds(e)}

(* ------------------- what a model says, read back --------------------- *)

TrueMoves(m, e, t) == {a \in 1..9 : m[var_move(e, a, t)] > 0}

PlayerCells(m, e, t) == {c \in Cells(e.N, e.M) : m[var_player(e, c[1], c[2], t)] > 0}

BoxCells(m, e, b, t) == {c \in Cells(e.N, e.M) : m[var_box(e, b, c[1], c[2], t)] > 0}

OneHot(m, e) ==
    \A t \in Times(e) :
        /\ Cardinality(TrueMoves(m, e, t)) = 1
        /\ Cardinality(PlayerCells(m, e, t)) = 1
        /\ \A b \in BoxIds(e) : Cardinality(BoxCells(m, e, b, t)) = 1

ActAt(m, e, t) == CHOOSE a \in TrueMoves(m, e, t) : TRUE

Snap(m, e, t) ==
    [p |-> CHOOSE c \in PlayerCells(m, e, t) : TRUE,
     b |-> [k \in BoxIds(e) |-> CHOOSE c \in BoxCells(m, e, k, t) : TRUE]]

\* the steps 1..T at which the model's action is a move or a push
MovingSteps(m, e) == SelectSeq([t \in 1..(e.T - 1) |-> t], LAMBDA t : ActAt(m, e, t) # 9)

HasModel == pc \in {"solved", "done"} /\ model # <<>>

(* ------------------------------ claims -------------------------------- *)

\* C1 (soundness of the planning encoding): every model of encode() is
\* one-hot, starts in the parsed start state, makes a legal move, push or stay
\* at every step 1..T, keeps player and boxes on free, distinct cells, ends
\* with every box on a goal, and the decoded direction list replayed from the
\* start state (a step towards an adjacent box pushes it) goes through the
\* model's snapshots, the repeated snapshots of stay steps left out.
C1_Soundness ==
    HasModel =>
        /\ OneHot(model, enc)
        /\ Snap(model, enc, 0) = [p |-> enc.player_start, b |-> enc.boxes]
        /\ \A t \in Times(enc) : SnapLegal(grid, Snap(model, enc, t))
        /\ \A t \in Steps(enc) :
              Snap(model, enc, t) = RuleAct(grid, Snap(model, enc, t - 1), ActAt(model, enc, t))
        /\ AllOnGoal(grid, Snap(model, enc, enc.T - 1))
        /\ pc = "done" =>
              /\ result.tag = "list"
              /\ Replay(grid, Snap(model, enc, 0), result.list, 1)
                    = [i \in 1..Len(MovingSteps(model, enc)) |->
                          Snap(model, enc, MovingSteps(model, enc)[i])]

\* a returned plan that holds a plain move and a push, with a stay step too
C1_Witness ==
    /\ pc = "done" /\ model # <<>>
    /\ \E t \in Steps(enc) : ActAt(model, enc, t) \in 1..4
    /\ \E t \in Steps(enc) : ActAt(model, enc, t) \in 5..8
    /\ \E t \in Steps(enc) : ActAt(model, enc, t) = 9
    /\ enc.num_boxes >= 1

\* C2 (round trip): the assignment of every legal run of at most T moves and
\* pushes that ends with every box on a goal, padded with stay, makes every
\* clause of encode() true.
C2_RoundTrip ==
    pc = "encoded" =>
        \A r \in GoalRuns(grid, T) : Satisfies(AssignmentOf(enc, grid, r), cnf)

\* a run with a push that is shorter than the horizon, so that it is padded
C2_Witness ==
    /\ pc = "encoded"
    /\ \E r \in GoalRuns(grid, T) :
          /\ Len(r) >= 1 /\ Len(r) < T
          /\ \E i \in 1..Len(r) : r[i].a >= 5
          /\ Satisfies(AssignmentOf(enc, grid, r), cnf)

\* C3 (horizon sensitivity): when the instance has a legal plan of k <= T
\* steps that ends with every box on a goal, solve_sokoban(grid, T) does not
\* return -1.
C3_HorizonSensitivity ==
    (pc = "done" /\ GoalRuns(grid, T) # {}) => result.tag = "list"

\* a plan of one step exists and the horizon is larger
C3_Witness ==
    /\ pc = "done" /\ T >= 2 /\ result.tag = "list"
    /\ \E r \in GoalRuns(grid, T) : Len(r) = 1
    /\ enc.num_boxes >= 1

GoalRange(e) == {var_goal(e, c[1], c[2]) : c \in Cells(e.N, e.M)}

PlayerRange(e) == {var_player(e, q[1][1], q[1][2], q[2]) : q \in Cells(e.N, e.M) \X Times(e)}

MoveRange(e) == {var_move(e, q[1], q[2]) : q \in (1..9) \X Times(e)}

BoxRange(e) ==
    {var_box(e, q[1], q[2][1], q[2][2], q[3]) : q \in BoxIds(e) \X Cells(e.N, e.M) \X Times(e)}

\* C4 (variable-ID bijection): with nm = N*M cells, T' = T+1 snapshots and B
\* boxes, each of var_goal, var_player, var_move, var_box is injective on its
\* in-bounds arguments, their ranges are the consecutive intervals of lengths
\* nm, nm*T', 9*T', B*T'*nm starting at 1, pairwise disjoint, and their union
\* is 1..(T'+1)*nm + 9*T' + B*T'*nm.
C4_VariableBijection ==
    pc = "constructed" =>
        LET nm == enc.N * enc.M
            tp == enc.T
            B == enc.num_boxes
            total == (tp + 1) * nm + 9 * tp + B * tp * nm
        IN  /\ tp = T + 1
            /\ Cardinality(GoalRange(enc)) = nm
            /\ Cardinality(PlayerRange(enc)) = nm * tp
            /\ Cardinality(MoveRange(enc)) = 9 * tp
            /\ Cardinality(BoxRange(enc)) = B * tp * nm
            /\ GoalRange(enc) = 1..nm
            /\ PlayerRange(enc) = (nm + 1)..((tp + 1) * nm)
            /\ MoveRange(enc) = ((tp + 1) * nm + 1)..((tp + 1) * nm + 9 * tp)
            /\ BoxRange(enc) = ((tp + 1) * nm + 9 * tp + 1)..total
            /\ GoalRange(enc) \cap PlayerRange(enc) = {}
            /\ GoalRange(enc) \cap MoveRange(enc) = {}
            /\ GoalRange(enc) \cap BoxRange(enc) = {}
            /\ PlayerRange(enc) \cap MoveRange(enc) = {}
            /\ PlayerRange(enc) \cap BoxRange(enc) = {}
            /\ MoveRange(enc) \cap BoxRange(enc) = {}
            /\ GoalRange(enc) \cup PlayerRange(enc) \cup MoveRange(enc) \cup BoxRange(enc)
                  = 1..total

\* an encoder with several rows and columns, two boxes and four snapshots
C4_Witness ==
    /\ pc = "constructed"
    /\ enc.N >= 2 /\ enc.M >= 2 /\ enc.num_boxes = 2 /\ enc.T = 4

\* the agent is directly beside the one box, and there is one goal cell
BesideBox(e) ==
    /\ e.num_boxes = 1 /\ Len(e.goals) = 1
    /\ \E d \in 0..3 : e.boxes[1] = StepCell(d, e.player_start[1], e.player_start[2])

\* the direction from the agent to the box beside it
BoxDir(e) ==
    CHOOSE d \in 0..3 : e.boxes[1] = StepCell(d, e.player_start[1], e.player_start[2])

\* the goal is the cell directly behind the box, seen from the agent
GoalBehindBox(e) ==
    /\ BesideBox(e)
    /\ e.goals[1] = StepCell(BoxDir(e), e.boxes[1][1], e.boxes[1][2])

\* C5 as the spec has it (scenario B): on a 2x2 grid with the agent directly
\* beside one box and one goal cell, horizon 1 gives the one-action plan of
\* the push direction.
C5_ScenarioB_2x2 ==
    (pc = "done" /\ T = 1 /\ enc.N = 2 /\ enc.M = 2 /\ BesideBox(enc)) =>
        result = PyList(<<SymOf(BoxDir(enc))>>)

\* C5 as the code has it: with the agent directly beside the one box and the
\* one goal in the cell directly behind the box (three cells in a line, which
\* a 2x2 grid does not have), horizon 1 gives the one-action plan of the push
\* direction; every 2x2 grid with a box is infeasible, whatever the horizon.
C5_ScenarioB ==
    /\ (pc = "done" /\ T = 1 /\ GoalBehindBox(enc)) =>
          result = PyList(<<SymOf(BoxDir(enc))>>)
    /\ (pc = "done" /\ enc.N = 2 /\ enc.M = 2 /\ enc.num_boxes >= 1) =>
          result = Infeasible

\* the three-in-a-line instance solved at horizon 1
C5_Witness ==
    /\ pc = "done" /\ T = 1 /\ GoalBehindBox(enc)
    /\ result.tag = "list" /\ Len(result.list) = 1

\* C6 (scenario C): a grid whose one box sits on its only goal (the grid
\* alphabet has one marker per cell, so the cell reads 'B' and no cell reads
\* 'G'), horizon 0: the result is the empty plan.
C6_ScenarioC ==
    (pc = "done" /\ T = 0 /\ enc.num_boxes = 1 /\ Len(enc.goals) = 0) =>
        result = PyList(<<>>)

ExpectedPlan(m, e) ==
    [i \in 1..Len(MovingSteps(m, e)) |-> SymOf((ActAt(m, e, MovingSteps(m, e)[i]) - 1) % 4)]

\* C7 (decoder order and content): decode() returns, in increasing time
\* order, one symbol for every step 1..T whose action is a move or a push
\* (codes 1..4 and 5..8 both give U, R, D, L) and nothing for stay or t=0; the
\* symbol's displacement in DIRS is the one the player makes at that step;
\* the plan has at most T symbols.
C7_DecodeOrder ==
    (pc = "done" /\ model # <<>>) =>
        /\ result = PyList(ExpectedPlan(model, enc))
        /\ Len(result.list) <= T
        /\ \A i \in 1..Len(MovingSteps(model, enc)) :
              LET t == MovingSteps(model, enc)[i]
                  from == Snap(model, enc, t - 1).p
                  to == Snap(model, enc, t).p
              IN  /\ i <= Len(result.list)
                  /\ to = <<from[1] + DIRS[result.list[i]][1], from[2] + DIRS[result.list[i]][2]>>

\* a plan with a stay step before a directional one, a move and a sideways push
C7_Witness ==
    /\ pc = "done" /\ model # <<>>
    /\ \E t1, t2 \in Steps(enc) :
          t1 < t2 /\ ActAt(model, enc, t1) = 9 /\ ActAt(model, enc, t2) \in {6, 8}
    /\ \E t \in Steps(enc) : ActAt(model, enc, t) \in 1..4

(* ------------------------ claims on solve_sudoku ---------------------- *)

\* every row, column and (for a perfect-square side) block holds 1..n
ValidSolution(g) ==
    LET n == Len(g)
    IN  /\ \A r \in 1..n : {g[r][c] : c \in 1..n} = 1..n
        /\ \A c \in 1..n : {g[r][c] : r \in 1..n} = 1..n
        /\ IsSquare(n) => BlocksComplete(g)

\* two cells of one row hold the same given value
RowClash(g) ==
    \E r, c1, c2 \in 1..Len(g) : c1 # c2 /\ g[r][c1] # 0 /\ g[r][c1] = g[r][c2]

BlankCells(g) == {q \in (1..Len(g)) \X (1..Len(g)) : g[q[1]][q[2]] = 0}

\* C8 (soundness of the static puzzle): when the side is a perfect square
\* and the solver found the clauses satisfiable, the returned grid has no
\* blank, keeps every given value, and has each value 1..n exactly once in
\* every row, column and sqrt(n) x sqrt(n) block.
C8_SudokuSoundness ==
    (pc = "done" /\ model # <<>> /\ IsSquare(Len(given))) =>
        /\ \A r, c \in 1..Len(given) :
              /\ Returned[r][c] \in 1..Len(given)
              /\ given[r][c] # 0 => Returned[r][c] = given[r][c]
        /\ ValidSolution(Returned)
        /\ BlocksComplete(Returned)

\* a 4x4 puzzle with two blank rows, filled
C8_Witness ==
    /\ pc = "done" /\ model # <<>> /\ Len(given) = 4
    /\ Cardinality(BlankCells(given)) >= 8
    /\ BlankCells(Returned) = {}

\* C9 (infeasibility floor): a grid with the same given value in two cells
\* of one row is never found satisfiable, and solve_sudoku returns the grid
\* as it was given, blanks included.
C9_InfeasibilityFloor ==
    RowClash(given) =>
        /\ pc # "solved"
        /\ pc = "done" => (model = <<>> /\ Returned = given)

\* a 4x4 grid with a clash in its first row and blank rows, returned as given
C9_Witness ==
    /\ pc = "done" /\ RowClash(given) /\ Len(given) = 4
    /\ BlankCells(given) # {}
    /\ Returned = given

\* C10 (fixed point on solved grids): a 4x4 grid that is fully pre-filled
\* with a valid solution is found satisfiable and returned equal to the input
\* in every cell.
C10_FixedPoint ==
    (pc = "done" /\ Len(given) = 4 /\ BlankCells(given) = {} /\ ValidSolution(given)) =>
        /\ model # <<>>
        /\ \A r, c \in 1..4 : Returned[r][c] = given[r][c]

\* a solved 4x4 grid that went through the decoding loop
C10_Witness ==
    /\ pc = "done" /\ Len(given) = 4 /\ BlankCells(given) = {} /\ ValidSolution(given)
    /\ model # <<>>

(* ------------------- claims on errors and outcomes -------------------- *)

\* the variables a model makes true
TrueVars(m) == {v \in 1..Len(m) : m[v] > 0}

MaxTrue == 2
\* the instance and the horizons of the encoders handed to decode()
HandedGrid == <<<<"P", ".">>>>
HandedHorizons == {0, 1}
\* the side lengths of the blank grids handed to the decoding loop
HandedSides == {1, 2}

\* the assignments with at most MaxTrue true action literals per time step
\* and every position literal false
HandedModels(e) ==
    {AsModel({var_move(e, q[1], q[2]) : q \in {q \in (1..9) \X Times(e) : q[1] \in f[q[2]]}},
             (e.T + 1) * e.N * e.M + 9 * e.T)
       : f \in [Times(e) -> {S \in SUBSET (1..9) : Cardinality(S) <= MaxTrue}]}

BlankGrid(n) == [r \in 1..n |-> [c \in 1..n |-> 0]]

\* decode(model, encoder) called on an encoder and any such model, or the
\* decoding loop of solve_sudoku entered with any assignment of a blank grid
HandedInit ==
    /\ pc = "solved"
    /\ cnf = {}
    /\ result = PyNone
    /\ \/ /\ grid = HandedGrid
          /\ T \in HandedHorizons
          /\ enc = NewEncoder(grid, T)
          /\ model \in HandedModels(enc)
          /\ solution = None
       \/ /\ \E n \in HandedSides : grid = BlankGrid(n)
          /\ T = 0
          /\ enc = None
          /\ model \in {AsModel(tr, Len(grid) * Len(grid) * Len(grid))
                          : tr \in SUBSET (1..(Len(grid) * Len(grid) * Len(grid)))}
          /\ solution = "grid"
    /\ given = grid

HandedDecode == solution = None /\ Decode

HandedSudokuDecode == solution = "grid" /\ SudokuDecode

HandedNext == HandedDecode \/ HandedSudokuDecode

SpecHanded == HandedInit /\ [][HandedNext]_vars

\* exactly one true literal per time step (decode) or per cell (sudoku)
HandedOneHot ==
    IF solution = None
      THEN \A t \in Times(enc) : Cardinality(TrueMoves(model, enc, t)) = 1
      ELSE \A q \in Idx(Len(grid)) \X Idx(Len(grid)) :
              Cardinality({num \in 1..Len(grid)
                             : model[prop(Len(grid), q[1], q[2], num)] > 0}) = 1

\* C12 (decode inconsistency is an error): a decoder handed a model with a
\* time step (decode) or a cell (solve_sudoku) that has no or several true
\* literals does not return an answer; it ends in an error.
C12_DecodeError ==
    ~HandedOneHot => pc # "done"

\* C13 (a malformed instance fails fast): for a grid without 'P' the
\* constructor SokobanEncoder(grid, T) does not return an encoder: the call
\* ends in an error before encode() can be called, with no clause produced.
C13_FailFast ==
    CountOf(given, "P") = 0 => (pc \in {"start", "error"} /\ cnf = {})

(* --------------- claims on the steps of a model ----------------------- *)

\* the direction 0..3 of a move code 1..4 or a push code 5..8
ActDir(a) == IF a <= 4 THEN a - 1 ELSE a - 5

\* the cell ahead of the player at t - 1 in the direction of the action at t
Ahead(m, e, t) ==
    StepCell(ActDir(ActAt(m, e, t)), Snap(m, e, t - 1).p[1], Snap(m, e, t - 1).p[2])

\* C14 (frame effect on boxes): in every model of encode(), at every step
\* 1..T a box changes its cell only under a push with the box in the cell
\* ahead of the player, and then to the cell one further in that direction;
\* a plain move and stay keep every box, and stay keeps the player too.
C14_FrameEffect ==
    HasModel =>
        /\ OneHot(model, enc)
        /\ \A t \in Steps(enc) :
              LET prev == Snap(model, enc, t - 1)
                  cur == Snap(model, enc, t)
                  a == ActAt(model, enc, t)
                  ahead == Ahead(model, enc, t)
                  behind == StepCell(ActDir(a), ahead[1], ahead[2])
              IN  /\ \A b \in BoxIds(enc) :
                        /\ cur.b[b] # prev.b[b] =>
                              (a \in 5..8 /\ prev.b[b] = ahead /\ cur.b[b] = behind)
                        /\ (a \in 5..8 /\ prev.b[b] = ahead) => cur.b[b] = behind
                  /\ a \in (1..4) \cup {9} => cur.b = prev.b
                  /\ a = 9 => cur.p = prev.p

\* a model with two boxes that pushes at one step and plainly moves at another
C14_Witness ==
    /\ HasModel /\ pc = "done" /\ enc.num_boxes = 2
    /\ \E t \in Steps(enc) : ActAt(model, enc, t) \in 5..8
    /\ \E t \in Steps(enc) : ActAt(model, enc, t) \in 1..4

\* C15 (snapshot invariant): in every model of encode(), at every time step
\* 0..T the player is in exactly one cell, each box is in exactly one cell, no
\* two boxes share a cell, the player shares a cell with no box, and no wall
\* cell holds the player or a box.
C15_SnapshotInvariant ==
    HasModel =>
        \A t \in Times(enc) :
            /\ Cardinality(PlayerCells(model, enc, t)) = 1
            /\ \A b \in BoxIds(enc) :
                  /\ Cardinality(BoxCells(model, enc, b, t)) = 1
                  /\ BoxCells(model, enc, b, t) \cap PlayerCells(model, enc, t) = {}
                  /\ \A bd \in BoxIds(enc) \ {b} :
                        BoxCells(model, enc, b, t) \cap BoxCells(model, enc, bd, t) = {}
                  /\ \A c \in BoxCells(model, enc, b, t) : At(grid, c) # "#"
            /\ \A c \in PlayerCells(model, enc, t) : At(grid, c) # "#"

\* a model with two boxes in which the player ends on a cell a box started on
C15_Witness ==
    /\ HasModel /\ pc = "done" /\ enc.num_boxes = 2
    /\ \E b \in BoxIds(enc) : enc.boxes[b] \in PlayerCells(model, enc, enc.T - 1)

\* C16 (no silent clamp): in every model of encode(), a move or push is
\* never true at a step whose destination cell for the player is off the
\* grid, a push is never true when the cell behind the box is off the grid or
\* when no box is in the cell ahead, and after every move or push the player
\* is in the neighbour cell in that direction, never in the cell it was in.
C16_NoSilentClamp ==
    HasModel =>
        /\ OneHot(model, enc)
        /\ \A t \in Steps(enc) :
              LET prev == Snap(model, enc, t - 1)
                  cur == Snap(model, enc, t)
                  a == ActAt(model, enc, t)
                  ahead == Ahead(model, enc, t)
                  behind == StepCell(ActDir(a), ahead[1], ahead[2])
              IN  /\ a \in 1..8 =>
                        /\ ~OffGrid(enc, ahead)
                        /\ cur.p = ahead
                        /\ cur.p # prev.p
                  /\ a \in 5..8 =>
                        /\ ~OffGrid(enc, behind)
                        /\ \E b \in BoxIds(enc) : prev.b[b] = ahead

\* a model on a level with a wall that moves up to the box and pushes it
C16_Witness ==
    /\ HasModel /\ pc = "done" /\ enc.num_boxes = 1 /\ Len(enc.walls) = 1
    /\ \E t \in Steps(enc) : ActAt(model, enc, t) \in 5..8
    /\ \E t \in Steps(enc) : ActAt(model, enc, t) \in 1..4

\* the pushes (source cell, direction) whose clauses carry box literals
PushCases(e) ==
    {q \in Cells(e.N, e.M) \X (0..3) :
        LET new == StepCell(q[2], q[1][1], q[1][2])
        IN  ~OffGrid(e, new) /\ ~OffGrid(e, StepCell(q[2], new[1], new[2]))}

\* the cells the push clauses of step t whose guards are true in m ask box b
\* to be in at t: the cell behind it (moved clause), its own cell (frame clause)
PushAsks(m, e, b, t) ==
    UNION {LET new == StepCell(q[2], q[1][1], q[1][2])
               behind == StepCell(q[2], new[1], new[2])
           IN  IF m[var_move(e, q[2] + 5, t)] > 0 /\ m[var_player(e, q[1][1], q[1][2], t - 1)] > 0
                 THEN (IF m[var_box(e, b, new[1], new[2], t - 1)] > 0 THEN {behind} ELSE {})
                      \cup {c \in Cells(e.N, e.M) \ {new}
                              : m[var_box(e, b, c[1], c[2], t - 1)] > 0}
                 ELSE {}
           : q \in PushCases(e)}

\* C17 (push guards are mutually exclusive): in every model of encode(), for
\* every push, source cell and box, the guard of the moved clause and a guard
\* of a frame clause are never both true, so the push clauses ask a box to be
\* in at most one cell at t; and the assignment of every rule-legal run,
\* pushes included, satisfies the push clauses and the uniqueness clauses.
C17_PushGuardsExclusive ==
    /\ HasModel =>
          \A t \in Steps(enc) : \A b \in BoxIds(enc) :
              /\ \A q \in PushCases(enc) :
                    LET new == StepCell(q[2], q[1][1], q[1][2])
                    IN  ~ /\ model[var_box(enc, b, new[1], new[2], t - 1)] > 0
                          /\ \E c \in Cells(enc.N, enc.M) \ {new} :
                                model[var_box(enc, b, c[1], c[2], t - 1)] > 0
              /\ Cardinality(PushAsks(model, enc, b, t)) <= 1
    /\ pc = "encoded" =>
          \A r \in Runs(grid, [p |-> enc.player_start, b |-> enc.boxes], T) :
              Satisfies(AssignmentOf(enc, grid, r), PushRules(enc) \cup UniquenessPerTime(enc))

\* a model with two boxes and a push whose clauses place both of them
C17_Witness ==
    /\ HasModel /\ pc = "done" /\ enc.num_boxes = 2
    /\ \E t \in Steps(enc) :
          /\ ActAt(model, enc, t) \in 5..8
          /\ \A b \in BoxIds(enc) : Cardinality(PushAsks(model, enc, b, t)) = 1
          /\ \E b \in BoxIds(enc) : Snap(model, enc, t).b[b] # Snap(model, enc, t - 1).b[b]

(* -------------------- more claims on solve_sudoku --------------------- *)

\* C18 (input aliasing): solve_sudoku returns the caller's grid object; when
\* the solver found a model every blank cell of the caller's grid holds the
\* value the model names for it and every given cell its given value, and
\* when the clauses are unsatisfiable, or before the decoding loop has run,
\* no cell of the caller's grid has changed.
C18_InputAliasing ==
    /\ pc \in {"start", "encoded", "solved"} => grid = given
    /\ pc \in {"solved", "done"} => solution = "grid"
    /\ (pc = "done" /\ model = <<>>) => grid = given
    /\ (pc = "done" /\ model # <<>>) =>
          \A r, c \in 1..Len(given) :
              IF given[r][c] = 0
                THEN /\ grid[r][c] \in 1..Len(given)
                     /\ model[prop(Len(given), r - 1, c - 1, grid[r][c])] > 0
                ELSE grid[r][c] = given[r][c]

\* a 4x4 puzzle with three blank rows, filled in the caller's grid
C18_Witness ==
    /\ pc = "done" /\ model # <<>> /\ Len(given) = 4
    /\ Cardinality(BlankCells(given)) = 12
    /\ grid # given
    /\ BlankCells(grid) = {}

\* C19 (side length that is no perfect square): for n = 2 and n = 3 sub_n is
\* 1, every subgrid clause is a unit clause and together they ask every cell
\* to hold every value; the solver never finds a model, whatever the givens
\* (a fully given Latin square included), and the grid is returned unchanged.
C19_NonSquareSide ==
    Len(given) \in {2, 3} =>
        /\ sub_n(Len(given)) = 1
        /\ pc # "solved"
        /\ pc \in {"encoded", "done"} =>
              /\ \A cl \in SubgridConditions(Len(given)) : Cardinality(cl) = 1
              /\ \A q \in Idx(Len(given)) \X Idx(Len(given)) \X (1..Len(given)) :
                    {prop(Len(given), q[1], q[2], q[3])} \in cnf
              /\ Models(cnf, NaturalOrder(cnf)) = {}
        /\ pc = "done" => (model = <<>> /\ Returned = given)

\* a fully given 3x3 Latin square, returned as it was given
C19_Witness ==
    /\ pc = "done" /\ Len(given) = 3
    /\ BlankCells(given) = {} /\ ValidSolution(given)
    /\ model = <<>> /\ Returned = given

====
